---- MODULE Spec2Model ----
(***************************************************************************)
(* emmon: the snapshot builder and its readers (monitor/system.go), the    *)
(* web adapter's subscriber registry and broadcast loop (web/server.go),   *)
(* the run loop of the terminal adapter (terminal/ui.go) and the           *)
(* reconnect logic of the page the web adapter serves.                     *)
(*                                                                         *)
(* Threads of control, as in the source:                                   *)
(*   - one handleWebSocket call per inbound /ws request (connection c),    *)
(*   - the disconnect goroutine it starts for c,                           *)
(*   - the single broadcastStats goroutine started by Start,               *)
(*   - handleStats calls (one per /api/stats request),                     *)
(*   - the remote peer of every connection (environment),                  *)
(*   - Start and handleEvents of the terminal adapter, its ticker and its  *)
(*     user (environment),                                                 *)
(*   - the event handlers of the page.                                     *)
(* Every step is one Go statement or one call on shared state (ws.mu,      *)
(* ws.clients, a connection, tui.quit), or one event handler of the page.  *)
(*                                                                         *)
(* Specifications: Spec and FairSpec (the web server), BuildSpec (one      *)
(* reader run against one OS state), UISpec and FairUISpec (the terminal   *)
(* adapter and the page).                                                  *)
(***************************************************************************)
EXTENDS Integers, Sequences, FiniteSets, TLC

\* ---------------------------------------------------------------- bounds
\* Connections that are ever opened, and snapshot builds (ticks and pulls) that
\* are ever made.
MaxConns == 2
MaxBuilds == 2
\* Terminal events the user ever produces, and calls of connect() the page
\* ever makes.
MaxEvents == 2
MaxAttempts == 3

Conns == 1..MaxConns

\* ------------------------------------------------- monitor/system.go
\* Numbers. A float64 that the program parses from text is kept as an
\* integer count of thousandths (0.25 is 250, 45000 is 45000000); counters
\* and the values handed over by gopsutil are kept as they are.
Milli == 1000

\* ---- strings, strconv
Ch(s, i) == SubSeq(s, i, i)
Spaces == {" ", "\t", "\n"}
DigitChars == {"0", "1", "2", "3", "4", "5", "6", "7", "8", "9"}
DigitVal(c) == CHOOSE d \in 0..9 : Ch("0123456789", d + 1) = c

\* strings.HasPrefix
HasPrefix(s, p) == Len(s) >= Len(p) /\ SubSeq(s, 1, Len(p)) = p

\* strings.TrimSpace
RECURSIVE TrimLeft(_)
TrimLeft(s) ==
    IF Len(s) > 0 /\ Ch(s, 1) \in Spaces THEN TrimLeft(SubSeq(s, 2, Len(s))) ELSE s
RECURSIVE TrimRight(_)
TrimRight(s) ==
    IF Len(s) > 0 /\ Ch(s, Len(s)) \in Spaces
    THEN TrimRight(SubSeq(s, 1, Len(s) - 1))
    ELSE s
TrimSpace(s) == TrimRight(TrimLeft(s))

\* strings.Fields: the maximal runs of non-space characters.
RECURSIVE FieldsAcc(_, _, _, _)
FieldsAcc(s, i, tok, acc) ==
    IF i > Len(s)
    THEN (IF tok = "" THEN acc ELSE Append(acc, tok))
    ELSE IF Ch(s, i) \in Spaces
         THEN FieldsAcc(s, i + 1, "", IF tok = "" THEN acc ELSE Append(acc, tok))
         ELSE FieldsAcc(s, i + 1, tok \o Ch(s, i), acc)
Fields(s) == FieldsAcc(s, 1, "", <<>>)

\* strings.Split on a one-character separator: empty parts are kept.
RECURSIVE SplitAcc(_, _, _, _, _)
SplitAcc(s, sep, i, tok, acc) ==
    IF i > Len(s)
    THEN Append(acc, tok)
    ELSE IF Ch(s, i) = sep
         THEN SplitAcc(s, sep, i + 1, "", Append(acc, tok))
         ELSE SplitAcc(s, sep, i + 1, tok \o Ch(s, i), acc)
Split(s, sep) == SplitAcc(s, sep, 1, "", <<>>)

IsDigits(s) == \A i \in 1..Len(s) : Ch(s, i) \in DigitChars
RECURSIVE DecVal(_)
DecVal(s) ==
    IF Len(s) = 0 THEN 0
    ELSE DecVal(SubSeq(s, 1, Len(s) - 1)) * 10 + DigitVal(Ch(s, Len(s)))

\* The sign of a literal and the literal without it.
Sign(s) == IF Len(s) > 0 /\ Ch(s, 1) = "-" THEN 0 - 1 ELSE 1
Unsigned(s) ==
    IF Len(s) > 0 /\ Ch(s, 1) \in {"+", "-"} THEN SubSeq(s, 2, Len(s)) ELSE s

\* strconv.ParseUint(s, 10, 64): the value is 0 when err is set.
ParseUint(s) ==
    IF Len(s) > 0 /\ IsDigits(s)
    THEN [val |-> DecVal(s), err |-> FALSE]
    ELSE [val |-> 0, err |-> TRUE]

\* strconv.Atoi
Atoi(s) ==
    LET u == Unsigned(s) IN
    IF Len(u) > 0 /\ IsDigits(u)
    THEN [val |-> Sign(s) * DecVal(u), err |-> FALSE]
    ELSE [val |-> 0, err |-> TRUE]

\* strconv.ParseFloat(s, 64) on decimal literals [sign] digits [. digits]
\* with at most three digits after the point; the result is in thousandths.
\* Any other text of the modelled inputs is a syntax error.
ParseFloat(s) ==
    LET u == Unsigned(s)
        parts == Split(u, ".")
        whole == parts[1]
        frac == IF Len(parts) = 2 THEN parts[2] ELSE ""
        pad == frac \o SubSeq("000", 1, 3 - Len(frac))
    IN  IF /\ Len(parts) <= 2
           /\ IsDigits(whole) /\ IsDigits(frac)
           /\ Len(whole) + Len(frac) > 0
           /\ Len(frac) <= 3
        THEN [val |-> Sign(s) * (DecVal(whole) * Milli + DecVal(pad)), err |-> FALSE]
        ELSE [val |-> 0, err |-> TRUE]

\* ---- files
NoFile == [exists |-> FALSE, text |-> "", lines |-> <<>>]
TextFile(t) == [exists |-> TRUE, text |-> t, lines |-> <<>>]
LineFile(ls) == [exists |-> TRUE, text |-> "", lines |-> ls]

\* ---- the low-level readers
\* Mutant: the load averages parsed before the first failure are returned.
readLoadAveragePartial(os) ==
    LET fields == Fields(os.loadavg.text)
        n == IF Len(fields) < 3 THEN Len(fields) ELSE 3
        good == {k \in 0..n : \A i \in 1..k : ~ParseFloat(fields[i]).err}
        m == CHOOSE k \in good : \A j \in good : j <= k
    IN  IF ~os.loadavg.exists THEN [val |-> <<>>, err |-> TRUE]
        ELSE [val |-> [i \in 1..m |-> ParseFloat(fields[i]).val], err |-> FALSE]

\* readLoadAverage: /proc/loadavg
readLoadAverage(os) ==
    LET fields == Fields(os.loadavg.text)
        loads == [i \in 1..3 |-> ParseFloat(fields[i])]
    IN  IF ~os.loadavg.exists THEN [val |-> <<>>, err |-> TRUE]
        ELSE IF Len(fields) < 3 THEN [val |-> <<>>, err |-> TRUE]
        ELSE IF \E i \in 1..3 : loads[i].err THEN [val |-> <<>>, err |-> TRUE]
        ELSE [val |-> [i \in 1..3 |-> loads[i].val], err |-> FALSE]

\* readCPUFrequency: the first "cpu MHz" line of /proc/cpuinfo that splits
\* in two at ":" and whose second part parses.
FreqOfLine(line) ==
    LET parts == Split(line, ":") IN
    IF HasPrefix(line, "cpu MHz") /\ Len(parts) = 2
    THEN ParseFloat(TrimSpace(parts[2]))
    ELSE [val |-> 0, err |-> TRUE]

RECURSIVE ScanFrequency(_, _)
ScanFrequency(lines, i) ==
    IF i > Len(lines) THEN [val |-> 0, err |-> TRUE]
    ELSE IF ~FreqOfLine(lines[i]).err THEN FreqOfLine(lines[i])
    ELSE ScanFrequency(lines, i + 1)

readCPUFrequency(os) ==
    IF ~os.cpuinfo.exists THEN [val |-> 0, err |-> TRUE]
    ELSE ScanFrequency(os.cpuinfo.lines, 1)

\* readTemperature: millidegrees to degrees Celsius.
readTemperature(file) ==
    LET temp == ParseFloat(TrimSpace(file.text)) IN
    IF ~file.exists THEN [val |-> 0, err |-> TRUE]
    ELSE IF temp.err THEN [val |-> 0, err |-> TRUE]
    ELSE [val |-> temp.val \div 1000, err |-> FALSE]

\* Mutant: a pin whose value does not parse is reported with value 0.
readGPIOStateLenient(entry) ==
    LET mode == TrimSpace(entry.direction.text)
        value == Atoi(TrimSpace(entry.value.text))
    IN  IF ~entry.direction.exists THEN [value |-> 0, mode |-> "", err |-> TRUE]
        ELSE IF ~entry.value.exists THEN [value |-> 0, mode |-> mode, err |-> TRUE]
        ELSE [value |-> value.val, mode |-> mode, err |-> FALSE]

\* readGPIOState of one directory entry: (value, mode, err)
readGPIOState(entry) ==
    LET mode == TrimSpace(entry.direction.text)
        value == Atoi(TrimSpace(entry.value.text))
    IN  IF ~entry.direction.exists THEN [value |-> 0, mode |-> "", err |-> TRUE]
        ELSE IF ~entry.value.exists THEN [value |-> 0, mode |-> mode, err |-> TRUE]
        ELSE IF value.err THEN [value |-> 0, mode |-> mode, err |-> TRUE]
        ELSE [value |-> value.val, mode |-> mode, err |-> FALSE]

\* readDiskIO: /proc/diskstats
DiskNames == {"sda", "mmcblk0"}
MinDiskFields == 14
ZeroIO == [Read |-> 0, Write |-> 0]

\* Mutant: a line matches by its device name, however short it is.
DiskLineMatchesByName(fields) == Len(fields) >= 8 /\ fields[3] \in DiskNames
DiskLineMatches(fields) == Len(fields) >= MinDiskFields /\ fields[3] \in DiskNames

RECURSIVE ScanDiskIO(_, _)
ScanDiskIO(lines, i) ==
    IF i > Len(lines) THEN ZeroIO
    ELSE LET fields == Fields(lines[i]) IN
         IF DiskLineMatches(fields)
         THEN [Read |-> ParseUint(fields[4]).val, Write |-> ParseUint(fields[8]).val]
         ELSE ScanDiskIO(lines, i + 1)

readDiskIO(os) ==
    IF ~os.diskstats.exists THEN [val |-> ZeroIO, err |-> TRUE]
    ELSE [val |-> ScanDiskIO(os.diskstats.lines, 1), err |-> FALSE]

\* ---- the family structs and their zero values
Sensors == {"cpu", "gpu", "board", "ambient"}

NilPins == [nil |-> TRUE, m |-> <<>>]
MakePins == [nil |-> FALSE, m |-> <<>>]

ZeroCPU == [UsagePercent |-> 0, LoadAverage |-> <<>>, Frequency |-> 0]
ZeroMem == [Total |-> 0, Used |-> 0, Free |-> 0, Available |-> 0, UsagePercent |-> 0]
ZeroDisk ==
    [Total |-> 0, Used |-> 0, Free |-> 0, UsagePercent |-> 0, IORead |-> 0, IOWrite |-> 0]
ZeroTemp == [CPU |-> 0, GPU |-> 0, Board |-> 0, Ambient |-> 0]
ZeroGPIO == [Pins |-> NilPins]

\* ---- the family readers: (stats, err)
getCPUStats(os) ==
    LET loadAvg == readLoadAverage(os)
        freq == readCPUFrequency(os)
    IN  [val |-> [UsagePercent |-> IF ~os.percent.err /\ Len(os.percent.usage) > 0
                                  THEN os.percent.usage[1] ELSE 0,
                  LoadAverage |-> IF ~loadAvg.err THEN loadAvg.val ELSE <<>>,
                  Frequency |-> IF ~freq.err THEN freq.val ELSE 0],
         err |-> FALSE]

\* Mutant: the usage of memory is reported in thousandths, not in hundredths.
getMemoryStatsPerMille(os) ==
    IF os.vm.err
    THEN [val |-> ZeroMem, err |-> TRUE]
    ELSE [val |-> [Total |-> os.vm.Total, Used |-> os.vm.Used, Free |-> os.vm.Free,
                   Available |-> os.vm.Available,
                   UsagePercent |-> os.vm.UsedPercent * 10],
          err |-> FALSE]

getMemoryStats(os) ==
    IF os.vm.err
    THEN [val |-> ZeroMem, err |-> TRUE]
    ELSE [val |-> [Total |-> os.vm.Total, Used |-> os.vm.Used, Free |-> os.vm.Free,
                   Available |-> os.vm.Available, UsagePercent |-> os.vm.UsedPercent],
          err |-> FALSE]

\* Mutant: the total is reported in a coarser unit than used and free.
getDiskStatsMixedUnits(os) ==
    LET ioStats == readDiskIO(os) IN
    IF os.disk.err
    THEN [val |-> ZeroDisk, err |-> TRUE]
    ELSE [val |-> [Total |-> os.disk.Total \div 2, Used |-> os.disk.Used,
                   Free |-> os.disk.Free,
                   UsagePercent |-> os.disk.UsedPercent,
                   IORead |-> IF ~ioStats.err THEN ioStats.val.Read ELSE 0,
                   IOWrite |-> IF ~ioStats.err THEN ioStats.val.Write ELSE 0],
          err |-> FALSE]

getDiskStats(os) ==
    LET ioStats == readDiskIO(os) IN
    IF os.disk.err
    THEN [val |-> ZeroDisk, err |-> TRUE]
    ELSE [val |-> [Total |-> os.disk.Total, Used |-> os.disk.Used, Free |-> os.disk.Free,
                   UsagePercent |-> os.disk.UsedPercent,
                   IORead |-> IF ~ioStats.err THEN ioStats.val.Read ELSE 0,
                   IOWrite |-> IF ~ioStats.err THEN ioStats.val.Write ELSE 0],
          err |-> FALSE]

\* The switch of getTemperatureStats: the field a sensor's reading goes to.
SetSensor(st, sensor, temp) ==
    CASE sensor = "cpu" -> [st EXCEPT !.CPU = temp]
      [] sensor = "gpu" -> [st EXCEPT !.GPU = temp]
      [] sensor = "board" -> [st EXCEPT !.Board = temp]
      [] sensor = "ambient" -> [st EXCEPT !.Ambient = temp]
      [] OTHER -> st

\* Mutant: the range ends at the first sensor that cannot be read.
RECURSIVE TempLoopBreaking(_, _, _)
TempLoopBreaking(os, i, st) ==
    IF i > Len(os.order) THEN st
    ELSE LET temp == readTemperature(os.thermal[os.order[i]]) IN
         IF temp.err THEN st
         ELSE TempLoopBreaking(os, i + 1, SetSensor(st, os.order[i], temp.val))

\* The range over tempPaths, in the order os.order the runtime produces.
RECURSIVE TempLoop(_, _, _)
TempLoop(os, i, st) ==
    IF i > Len(os.order) THEN st
    ELSE LET temp == readTemperature(os.thermal[os.order[i]]) IN
         TempLoop(os, i + 1,
                  IF ~temp.err THEN SetSensor(st, os.order[i], temp.val) ELSE st)

getTemperatureStats(os) == [val |-> TempLoop(os, 1, ZeroTemp), err |-> FALSE]

\* The loop over the entries ReadDir returns.
RECURSIVE GpioLoop(_, _, _)
GpioLoop(files, i, pins) ==
    IF i > Len(files) THEN pins
    ELSE LET st == readGPIOState(files[i]) IN
         GpioLoop(files, i + 1,
                  IF HasPrefix(files[i].name, "gpio") /\ ~st.err
                  THEN (files[i].name :>
                          [Pin |-> files[i].name, Value |-> st.value, Mode |-> st.mode])
                       @@ pins
                  ELSE pins)

getGPIOStats(os) ==
    IF os.gpio.stat = "notexist"
    THEN [val |-> [Pins |-> MakePins], err |-> FALSE]
    ELSE IF os.gpio.stat = "ok"
         THEN [val |-> [Pins |-> [nil |-> FALSE, m |-> GpioLoop(os.gpio.entries, 1, <<>>)]],
               err |-> FALSE]
         ELSE [val |-> [Pins |-> MakePins], err |-> FALSE]

\* A reader whose error is not nil leaves its family at the zero value.
Absorb(r, zero) == IF ~r.err THEN r.val ELSE zero

Families == <<"cpu", "memory", "disk", "temperature", "gpio">>

\* Mutant: the builder returns at the first reader that fails.
GetSystemStatsAborting(t, os) ==
    LET cpuOk == ~getCPUStats(os).err
        memOk == cpuOk /\ ~getMemoryStats(os).err
        diskOk == memOk /\ ~getDiskStats(os).err
        tempOk == diskOk /\ ~getTemperatureStats(os).err
        gpioOk == tempOk /\ ~getGPIOStats(os).err
    IN  [nil |-> FALSE, err |-> FALSE,
         calls |-> SubSeq(Families, 1,
                     IF ~cpuOk THEN 1 ELSE IF ~memOk THEN 2 ELSE IF ~diskOk THEN 3
                     ELSE IF ~tempOk THEN 4 ELSE 5),
         stats |-> [Timestamp |-> t,
                    CPU |-> IF cpuOk THEN getCPUStats(os).val ELSE ZeroCPU,
                    Memory |-> IF memOk THEN getMemoryStats(os).val ELSE ZeroMem,
                    Disk |-> IF diskOk THEN getDiskStats(os).val ELSE ZeroDisk,
                    Temperature |-> IF tempOk THEN getTemperatureStats(os).val
                                    ELSE ZeroTemp,
                    GPIO |-> IF gpioOk THEN getGPIOStats(os).val ELSE ZeroGPIO]]

\* Mutant: the builder propagates a reader's error to its caller.
GetSystemStatsPropagating(t, os) ==
    IF getMemoryStats(os).err \/ getDiskStats(os).err
    THEN [nil |-> TRUE, err |-> TRUE, calls |-> Families,
          stats |-> [Timestamp |-> t, CPU |-> ZeroCPU, Memory |-> ZeroMem,
                     Disk |-> ZeroDisk, Temperature |-> ZeroTemp, GPIO |-> ZeroGPIO]]
    ELSE [nil |-> FALSE, err |-> FALSE, calls |-> Families,
          stats |-> [Timestamp |-> t,
                     CPU |-> Absorb(getCPUStats(os), ZeroCPU),
                     Memory |-> Absorb(getMemoryStats(os), ZeroMem),
                     Disk |-> Absorb(getDiskStats(os), ZeroDisk),
                     Temperature |-> Absorb(getTemperatureStats(os), ZeroTemp),
                     GPIO |-> Absorb(getGPIOStats(os), ZeroGPIO)]]

\* GetSystemStats at clock reading t: (stats, err); nil says stats is nil,
\* calls lists the family readers it has invoked.
GetSystemStats(t, os) ==
    [nil |-> FALSE, err |-> FALSE, calls |-> Families,
     stats |-> [Timestamp |-> t,
                CPU |-> Absorb(getCPUStats(os), ZeroCPU),
                Memory |-> Absorb(getMemoryStats(os), ZeroMem),
                Disk |-> Absorb(getDiskStats(os), ZeroDisk),
                Temperature |-> Absorb(getTemperatureStats(os), ZeroTemp),
                GPIO |-> Absorb(getGPIOStats(os), ZeroGPIO)]]

\* ---- the OS states the readers are run against
\* cpu.Percent(0, false)
PercentResults ==
    { [err |-> TRUE, usage |-> <<>>], [err |-> FALSE, usage |-> <<>>],
      [err |-> FALSE, usage |-> <<0>>], [err |-> FALSE, usage |-> <<37>>],
      [err |-> FALSE, usage |-> <<100>>], [err |-> FALSE, usage |-> <<150>>] }

\* /proc/loadavg, with the load averages the file states (none: <<>>).
LoadavgFixtures ==
    { [file |-> NoFile, want |-> <<>>],
      [file |-> TextFile("0.10 0.25 0.30 1/123 4567\n"), want |-> <<100, 250, 300>>],
      [file |-> TextFile("1.5 2 0.05\n"), want |-> <<1500, 2000, 50>>],
      [file |-> TextFile("0.10 0.25\n"), want |-> <<>>],
      [file |-> TextFile("0.10 x 0.30 1/1 2\n"), want |-> <<>>],
      [file |-> TextFile(""), want |-> <<>>] }

\* /proc/cpuinfo, with the frequency in MHz the file states (none: 0).
CpuinfoFixtures ==
    { [file |-> NoFile, want |-> 0],
      [file |-> LineFile(<<"processor\t: 0", "model name\t: ARMv7", "BogoMIPS\t: 38.40">>),
       want |-> 0],
      [file |-> LineFile(<<"processor\t: 0", "cpu MHz\t\t: 1200.000",
                           "processor\t: 1", "cpu MHz\t\t: 800.000">>),
       want |-> 1200000],
      [file |-> LineFile(<<"cpu MHz\t\t: n/a", "cpu MHz\t\t: 800.5">>), want |-> 800500],
      [file |-> LineFile(<<"cpu MHz: 1:2">>), want |-> 0] }

\* mem.VirtualMemory()
VmResults ==
    { [err |-> TRUE, Total |-> 0, Used |-> 0, Free |-> 0, Available |-> 0, UsedPercent |-> 0],
      [err |-> FALSE, Total |-> 8, Used |-> 3, Free |-> 4, Available |-> 5, UsedPercent |-> 37],
      [err |-> FALSE, Total |-> 8, Used |-> 8, Free |-> 0, Available |-> 0, UsedPercent |-> 100],
      [err |-> FALSE, Total |-> 8, Used |-> 9, Free |-> 0, Available |-> 0, UsedPercent |-> 112] }

\* disk.Usage("/")
DiskUsageResults ==
    { [err |-> TRUE, Total |-> 0, Used |-> 0, Free |-> 0, UsedPercent |-> 0],
      [err |-> FALSE, Total |-> 16, Used |-> 4, Free |-> 12, UsedPercent |-> 25],
      [err |-> FALSE, Total |-> 16, Used |-> 16, Free |-> 0, UsedPercent |-> 100],
      [err |-> FALSE, Total |-> 16, Used |-> 20, Free |-> 0, UsedPercent |-> 125] }

\* /proc/diskstats, with the counters the reader is to report.
DiskstatsFixtures ==
    { [file |-> NoFile, want |-> ZeroIO],
      [file |-> LineFile(<<>>), want |-> ZeroIO],
      [file |-> LineFile(<<"   7       0 loop0 5 0 40 1 0 0 0 0 0 1 1",
                           "   8       0 sda 100 5 2000 30 50 2 1000 40 0 60 70",
                           " 179       0 mmcblk0 7 0 56 3 9 0 72 5 0 8 8">>),
       want |-> [Read |-> 100, Write |-> 50]],
      [file |-> LineFile(<<" 179       0 mmcblk0 7 0 56 3 9 0 72 5 0 8 8 0 0 0 0",
                           "   8       0 sda 100 5 2000 30 50 2 1000 40 0 60 70">>),
       want |-> [Read |-> 7, Write |-> 9]],
      [file |-> LineFile(<<"   8       1 sda1 11 0 88 2 3 0 24 1 0 3 3",
                           "   8      16 sdb 1 0 8 0 0 0 0 0 0 0 0">>),
       want |-> ZeroIO],
      [file |-> LineFile(<<"8 0 sda 100 5 2000 30 50">>), want |-> ZeroIO],
      [file |-> LineFile(<<"8 0 sda 100 5 2000 30 50",
                           " 179       0 mmcblk0 7 0 56 3 9 0 72 5 0 8 8">>),
       want |-> [Read |-> 7, Write |-> 9]],
      [file |-> LineFile(<<"   8       0 sda x 5 2000 30 y 2 1000 40 0 60 70">>),
       want |-> ZeroIO] }

\* A thermal zone file, with the millidegrees it states (valid: it states any).
ThermalFixtures ==
    { [file |-> NoFile, valid |-> FALSE, reading |-> 0],
      [file |-> TextFile("45000\n"), valid |-> TRUE, reading |-> 45000],
      [file |-> TextFile("-5500\n"), valid |-> TRUE, reading |-> 0 - 5500],
      [file |-> TextFile("abc\n"), valid |-> FALSE, reading |-> 0] }

\* /sys/class/gpio: the result of Stat and the entries ReadDir lists (sorted
\* by name), each with its direction and value files.
GpioEntry(name, direction, value) ==
    [name |-> name, direction |-> direction, value |-> value]
GpioControl == <<GpioEntry("export", NoFile, NoFile)>>
GpioFixtures ==
    { [gpio |-> [stat |-> "notexist", entries |-> <<>>], want |-> {}],
      [gpio |-> [stat |-> "denied", entries |-> <<>>], want |-> {}],
      [gpio |-> [stat |-> "ok", entries |-> GpioControl], want |-> {}],
      [gpio |-> [stat |-> "ok", entries |->
                   GpioControl \o
                   <<GpioEntry("gpio17", TextFile("in\n"), TextFile("1\n")),
                     GpioEntry("gpiochip0", NoFile, NoFile)>>],
       want |-> {[Pin |-> "gpio17", Value |-> 1, Mode |-> "in"]}],
      [gpio |-> [stat |-> "ok", entries |->
                   <<GpioEntry("gpio17", TextFile("in\n"), TextFile("1\n")),
                     GpioEntry("gpio4", TextFile("out\n"), TextFile("0\n"))>>],
       want |-> {[Pin |-> "gpio17", Value |-> 1, Mode |-> "in"],
                 [Pin |-> "gpio4", Value |-> 0, Mode |-> "out"]}],
      [gpio |-> [stat |-> "ok", entries |->
                   <<GpioEntry("gpio17", TextFile("in\n"), NoFile),
                     GpioEntry("gpio4", TextFile("out\n"), TextFile("0\n"))>>],
       want |-> {[Pin |-> "gpio4", Value |-> 0, Mode |-> "out"]}],
      [gpio |-> [stat |-> "ok", entries |->
                   <<GpioEntry("gpio17", TextFile("in\n"), TextFile("high\n")),
                     GpioEntry("gpio4", TextFile("out\n"), TextFile("0\n"))>>],
       want |-> {[Pin |-> "gpio4", Value |-> 0, Mode |-> "out"]}],
      [gpio |-> [stat |-> "ok", entries |->
                   <<GpioEntry("gpio17", NoFile, TextFile("1\n")),
                     GpioEntry("gpio4", TextFile("out\n"), TextFile("0\n"))>>],
       want |-> {[Pin |-> "gpio4", Value |-> 0, Mode |-> "out"]}],
      [gpio |-> [stat |-> "ok", entries |->
                   <<GpioEntry("pin5", TextFile("in\n"), TextFile("1\n"))>>],
       want |-> {}] }

\* The orders in which the runtime may range over the four sensor paths.
Orders == {o \in [1..4 -> Sensors] : \A i, j \in 1..4 : o[i] = o[j] => i = j}
PathOrder == <<"cpu", "gpu", "board", "ambient">>

\* The inputs of each family.
CpuInputs ==
    [percent : PercentResults, loadavg : {f.file : f \in LoadavgFixtures},
     cpuinfo : {f.file : f \in CpuinfoFixtures}]
DiskInputs == [disk : DiskUsageResults, diskstats : {f.file : f \in DiskstatsFixtures}]
ThermalInputs == [Sensors -> {f.file : f \in ThermalFixtures}]
GpioInputs == {f.gpio : f \in GpioFixtures}

OS(c, v, d, th, g, o) ==
    [percent |-> c.percent, loadavg |-> c.loadavg, cpuinfo |-> c.cpuinfo, vm |-> v,
     disk |-> d.disk, diskstats |-> d.diskstats, thermal |-> th, gpio |-> g, order |-> o]

\* A healthy and a broken input of each family.
HealthyCpu ==
    [percent |-> [err |-> FALSE, usage |-> <<37>>],
     loadavg |-> TextFile("0.10 0.25 0.30 1/123 4567\n"),
     cpuinfo |-> LineFile(<<"processor\t: 0", "cpu MHz\t\t: 1200.000",
                            "processor\t: 1", "cpu MHz\t\t: 800.000">>)]
BrokenCpu ==
    [percent |-> [err |-> TRUE, usage |-> <<>>], loadavg |-> NoFile, cpuinfo |-> NoFile]
HealthyVm ==
    [err |-> FALSE, Total |-> 8, Used |-> 3, Free |-> 4, Available |-> 5, UsedPercent |-> 37]
BrokenVm ==
    [err |-> TRUE, Total |-> 0, Used |-> 0, Free |-> 0, Available |-> 0, UsedPercent |-> 0]
HealthyDisk ==
    [disk |-> [err |-> FALSE, Total |-> 16, Used |-> 4, Free |-> 12, UsedPercent |-> 25],
     diskstats |-> LineFile(<<"   7       0 loop0 5 0 40 1 0 0 0 0 0 1 1",
                              "   8       0 sda 100 5 2000 30 50 2 1000 40 0 60 70",
                              " 179       0 mmcblk0 7 0 56 3 9 0 72 5 0 8 8">>)]
BrokenDisk ==
    [disk |-> [err |-> TRUE, Total |-> 0, Used |-> 0, Free |-> 0, UsedPercent |-> 0],
     diskstats |-> NoFile]
HealthyThermal == [s \in Sensors |-> TextFile("45000\n")]
BrokenThermal == [s \in Sensors |-> NoFile]
HealthyGpio ==
    [stat |-> "ok", entries |->
       <<GpioEntry("gpio17", TextFile("in\n"), TextFile("1\n")),
         GpioEntry("gpio4", TextFile("out\n"), TextFile("0\n"))>>]
BrokenGpio == [stat |-> "notexist", entries |-> <<>>]

RepCpu == {HealthyCpu, BrokenCpu}
RepVm == {HealthyVm, BrokenVm}
RepDisk == {HealthyDisk, BrokenDisk}
RepThermal == {HealthyThermal, BrokenThermal}
RepGpio == {HealthyGpio, BrokenGpio}

\* The thermal inputs whose files state nothing below zero.
OrderedInputs == {th \in ThermalInputs : \A s \in Sensors : th[s] # TextFile("-5500\n")}

\* The OS states the readers are run against: every combination of a healthy
\* or a broken input of each family; every input of one family, the other
\* families all healthy or all broken; and the thermal inputs under every
\* order of the range.
AllOS ==
    {OS(c, v, d, th, g, PathOrder) :
        c \in RepCpu, v \in RepVm, d \in RepDisk, th \in RepThermal, g \in RepGpio}
    \cup {OS(c, HealthyVm, HealthyDisk, HealthyThermal, HealthyGpio, PathOrder) :
        c \in CpuInputs}
    \cup {OS(c, BrokenVm, BrokenDisk, BrokenThermal, BrokenGpio, PathOrder) :
        c \in CpuInputs}
    \cup {OS(HealthyCpu, v, HealthyDisk, HealthyThermal, HealthyGpio, PathOrder) :
        v \in VmResults}
    \cup {OS(BrokenCpu, v, BrokenDisk, BrokenThermal, BrokenGpio, PathOrder) :
        v \in VmResults}
    \cup {OS(HealthyCpu, HealthyVm, d, HealthyThermal, HealthyGpio, PathOrder) :
        d \in DiskInputs}
    \cup {OS(BrokenCpu, BrokenVm, d, BrokenThermal, BrokenGpio, PathOrder) :
        d \in DiskInputs}
    \cup {OS(HealthyCpu, HealthyVm, HealthyDisk, th, HealthyGpio, PathOrder) :
        th \in ThermalInputs}
    \cup {OS(BrokenCpu, BrokenVm, BrokenDisk, th, BrokenGpio, PathOrder) :
        th \in ThermalInputs}
    \cup {OS(HealthyCpu, HealthyVm, HealthyDisk, HealthyThermal, g, PathOrder) :
        g \in GpioInputs}
    \cup {OS(BrokenCpu, BrokenVm, BrokenDisk, BrokenThermal, g, PathOrder) :
        g \in GpioInputs}
    \cup {OS(HealthyCpu, HealthyVm, HealthyDisk, th, HealthyGpio, o) :
        th \in OrderedInputs, o \in Orders}

HealthyOS == OS(HealthyCpu, HealthyVm, HealthyDisk, HealthyThermal, HealthyGpio, PathOrder)
DeadOS == OS(BrokenCpu, BrokenVm, BrokenDisk, BrokenThermal, BrokenGpio, PathOrder)

\* The OS states the server's builds are run against: every combination of
\* the two readers that can return an error (memory, disk), and the state
\* in which no source at all is readable.
OSStates ==
    { [HealthyOS EXCEPT !.vm = v, !.disk = d] :
         v \in RepVm, d \in {HealthyDisk.disk, BrokenDisk.disk} }
    \cup {DeadOS}

\* The builds of the server, tabulated once per OS state; the clock reading
\* is filled in by the caller.
Builds == [o \in OSStates |-> GetSystemStats(0, o)]
BuildAt(t, o) == [Builds[o] EXCEPT !.stats.Timestamp = t]

\* The OS states the broadcast ticks are run against.
TickOS == {HealthyOS, DeadOS}

\* ------------------------------------------------------ web/server.go
VARIABLES
    clients,    \* ws.clients: the set of keys of the map
    mu,         \* ws.mu: [w: the holder of the exclusive lock, r: the holders of the shared lock]
    hpc,        \* hpc[c]: position of handleWebSocket for connection c
    dpc,        \* dpc[c]: position of the disconnect goroutine of c
    peer,       \* peer[c]: the remote end of c (environment)
    closed,     \* closed[c]: conn.Close() has been called on c
    bpc,        \* position of broadcastStats
    stats,      \* broadcastStats' local stats (NoStats outside a tick)
    todo,       \* entries the range loop has still to produce
    cur,        \* the loop variable client (0 outside an iteration)
    ticks,      \* ticker firings consumed so far
    skips,      \* ticks abandoned by the continue of the error branch
    now,        \* clock: time.Now() readings taken so far
    wlog,       \* wlog[c]: the WriteJSON calls made on c, in order
    tickStart,  \* the registry, and its severed connections, when the tick took RLock
    reqs,       \* /api/stats requests served so far
    resp,       \* the last /api/stats response
    sys,        \* the OS state the monitor's readers are run against
    call,       \* the last reader run against sys, with what it returned
    tpc,        \* position of TerminalUI.Start
    epc,        \* position of the handleEvents goroutine
    quit,       \* tui.quit has been closed
    events,     \* the terminal events PollEvent has still to return
    typed,      \* terminal events produced so far
    tick,       \* ticker.C of Start holds a tick
    fini,       \* screen.Fini() has run
    ws,         \* page: readyState of the socket the variable ws refers to
    reconnectTimer, \* page: the variable reconnectTimer (0: null)
    timers,     \* page: the handles of the pending timeouts
    attempts    \* page: calls of connect() so far

vars ==
    <<clients, mu, hpc, dpc, peer, closed, bpc, stats, todo, cur, ticks, skips,
      now, wlog, tickStart, reqs, resp, sys, call, tpc, epc, quit, events,
      typed, tick, fini, ws, reconnectTimer, timers, attempts>>

P(kind, c) == [kind |-> kind, conn |-> c]
None == P("none", 0)
BC == P("bc", 0)

NoStats == [Timestamp |-> 0]
NoResp == [status |-> 0, ts |-> 0, req |-> 0]
NoTick == [reg |-> {}, severed |-> {}]
NoCall == [fn |-> "none"]

\* sync.RWMutex
CanLock(m) == m.w = None /\ m.r = {}
\* Mutant: a shared lock that does not wait for the writer.
CanRLockIgnoringWriter(m) == Cardinality(m.r) >= 0
CanRLock(m) == m.w = None

\* Mutant: removal by position, where an absent key removes some other entry.
MapDeleteByIndex(m, k) ==
    IF k \in m \/ m = {} THEN m \ {k} ELSE m \ {CHOOSE x \in m : TRUE}

\* builtin delete(m, k) on the key set of a map: no-op when k is absent.
MapDelete(m, k) == m \ {k}

\* The remote end of a connection: "alive" reads what it is sent, "slow" has
\* stopped reading, "halfclosed" has stopped reading and has sent its close
\* frame (or shut down its sending side), "gone" has dropped the connection.
\* conn.WriteJSON on c: fails on a connection closed locally or whose peer
\* is gone, does not return while the peer does not drain the stream.
WriteBlocks(c) == ~closed[c] /\ peer[c] \in {"slow", "halfclosed"}
WriteFails(c) == closed[c] \/ peer[c] = "gone"

\* conn.ReadMessage on c returns an error.
ReadFails(c) == closed[c] \/ peer[c] \in {"gone", "halfclosed"}

ServerInit ==
    /\ clients = {}
    /\ mu = [w |-> None, r |-> {}]
    /\ hpc = [c \in Conns |-> "idle"]
    /\ dpc = [c \in Conns |-> "none"]
    /\ peer = [c \in Conns |-> "none"]
    /\ closed = [c \in Conns |-> FALSE]
    /\ bpc = "idle"
    /\ stats = NoStats
    /\ todo = {}
    /\ cur = 0
    /\ ticks = 0
    /\ skips = 0
    /\ now = 0
    /\ wlog = [c \in Conns |-> <<>>]
    /\ tickStart = NoTick
    /\ reqs = 0
    /\ resp = NoResp

\* No reader has been run.
MonitorIdle == call = NoCall

\* The terminal adapter has not been started.
TerminalOff ==
    /\ tpc = "off"
    /\ epc = "none"
    /\ quit = FALSE
    /\ events = <<>>
    /\ typed = 0
    /\ tick = FALSE
    /\ fini = FALSE

\* No page is open.
PageOff ==
    /\ ws = "none"
    /\ reconnectTimer = 0
    /\ timers = {}
    /\ attempts = 0

\* emmon web: the server alone, on a healthy host.
Init ==
    /\ ServerInit
    /\ sys = HealthyOS
    /\ MonitorIdle
    /\ TerminalOff
    /\ PageOff

monVars == <<sys, call>>
termVars == <<tpc, epc, quit, events, typed, tick, fini>>
pageVars == <<ws, reconnectTimer, timers, attempts>>
serverVars ==
    <<clients, mu, hpc, dpc, peer, closed, bpc, stats, todo, cur, ticks, skips,
      now, wlog, tickStart, reqs, resp>>
hwsVars == <<hpc, dpc, clients, mu, peer>>
bcVars == <<bpc, stats, todo, cur, ticks, skips, wlog, tickStart>>
pullVars == <<reqs, resp>>

\* ---- handleWebSocket(c)
\* Connections are numbered in the order their requests arrive.
Arrives(c) == hpc[c] = "idle" /\ \A d \in Conns : d < c => hpc[d] # "idle"

\* ws.upgrader.Upgrade succeeds.
HwsUpgrade(c) ==
    /\ Arrives(c)
    /\ hpc' = [hpc EXCEPT ![c] = "upgraded"]
    /\ peer' = [peer EXCEPT ![c] = "alive"]
    /\ UNCHANGED <<dpc, clients, mu, closed, now>>
    /\ UNCHANGED bcVars
    /\ UNCHANGED <<pullVars, monVars, termVars, pageVars>>

\* Mutant: the handler of a failed upgrade goes on to start the goroutine.
HwsUpgradeFailSpawning(c) ==
    /\ Arrives(c)
    /\ hpc' = [hpc EXCEPT ![c] = "failed"]
    /\ dpc' = [dpc EXCEPT ![c] = "reading"]
    /\ UNCHANGED <<clients, mu, peer, closed, now>>
    /\ UNCHANGED bcVars
    /\ UNCHANGED <<pullVars, monVars, termVars, pageVars>>

\* ws.upgrader.Upgrade fails: log and return.
HwsUpgradeFail(c) ==
    /\ Arrives(c)
    /\ hpc' = [hpc EXCEPT ![c] = "failed"]
    /\ UNCHANGED <<dpc, clients, mu, peer, closed, now>>
    /\ UNCHANGED bcVars
    /\ UNCHANGED <<pullVars, monVars, termVars, pageVars>>

\* ws.mu.Lock()
HwsLock(c) ==
    /\ hpc[c] = "upgraded"
    /\ CanLock(mu)
    /\ mu' = [mu EXCEPT !.w = P("hws", c)]
    /\ hpc' = [hpc EXCEPT ![c] = "locked"]
    /\ UNCHANGED <<dpc, clients, peer, closed, now>>
    /\ UNCHANGED bcVars
    /\ UNCHANGED <<pullVars, monVars, termVars, pageVars>>

\* Mutant: the handler greets the new subscriber with a message of its own.
HwsInsertGreeting(c) ==
    /\ hpc[c] = "locked"
    /\ clients' = clients \cup {c}
    /\ mu' = [mu EXCEPT !.w = None]
    /\ hpc' = [hpc EXCEPT ![c] = "done"]
    /\ dpc' = [dpc EXCEPT ![c] = "reading"]
    /\ wlog' = [wlog EXCEPT ![c] = Append(@, [ts |-> 0, ok |-> ~WriteFails(c)])]
    /\ UNCHANGED <<peer, closed, now>>
    /\ UNCHANGED <<bpc, stats, todo, cur, ticks, skips, tickStart>>
    /\ UNCHANGED <<pullVars, monVars, termVars, pageVars>>

\* ws.clients[conn] = true; ws.mu.Unlock(); go func() {...}(); return
HwsInsert(c) ==
    /\ hpc[c] = "locked"
    /\ clients' = clients \cup {c}
    /\ mu' = [mu EXCEPT !.w = None]
    /\ hpc' = [hpc EXCEPT ![c] = "done"]
    /\ dpc' = [dpc EXCEPT ![c] = "reading"]
    /\ UNCHANGED <<peer, closed, now>>
    /\ UNCHANGED bcVars
    /\ UNCHANGED <<pullVars, monVars, termVars, pageVars>>

\* ---- the disconnect goroutine of c
\* Mutant: the goroutine goes for the lock with the connection still open.
DhCloseDeferred(c) ==
    /\ dpc[c] = "reading"
    /\ ReadFails(c)
    /\ dpc' = [dpc EXCEPT ![c] = "closed"]
    /\ UNCHANGED <<hpc, clients, mu, peer, closed, now>>
    /\ UNCHANGED bcVars
    /\ UNCHANGED <<pullVars, monVars, termVars, pageVars>>

\* conn.ReadMessage() returns an error: break; deferred conn.Close()
DhClose(c) ==
    /\ dpc[c] = "reading"
    /\ ReadFails(c)
    /\ closed' = [closed EXCEPT ![c] = TRUE]
    /\ dpc' = [dpc EXCEPT ![c] = "closed"]
    /\ UNCHANGED <<hpc, clients, mu, peer, now>>
    /\ UNCHANGED bcVars
    /\ UNCHANGED <<pullVars, monVars, termVars, pageVars>>

\* deferred ws.mu.Lock()
DhLock(c) ==
    /\ dpc[c] = "closed"
    /\ CanLock(mu)
    /\ mu' = [mu EXCEPT !.w = P("dh", c)]
    /\ dpc' = [dpc EXCEPT ![c] = "locked"]
    /\ UNCHANGED <<hpc, clients, peer, closed, now>>
    /\ UNCHANGED bcVars
    /\ UNCHANGED <<pullVars, monVars, termVars, pageVars>>

\* deferred delete(ws.clients, conn); ws.mu.Unlock(); log
DhDelete(c) ==
    /\ dpc[c] = "locked"
    /\ clients' = MapDelete(clients, c)
    /\ mu' = [mu EXCEPT !.w = None]
    /\ dpc' = [dpc EXCEPT ![c] = "done"]
    /\ UNCHANGED <<hpc, peer, closed, now>>
    /\ UNCHANGED bcVars
    /\ UNCHANGED <<pullVars, monVars, termVars, pageVars>>

\* ---- broadcastStats
\* A tick fires: stats, err := ws.monitor.GetSystemStats(); on an error, log
\* and continue with the next tick.
BcTick ==
    /\ bpc = "idle"
    /\ now < MaxBuilds
    /\ \E os \in TickOS :
          LET r == BuildAt(now + 1, os) IN
          IF r.err
          THEN /\ skips' = skips + 1
               /\ UNCHANGED <<bpc, stats>>
          ELSE /\ stats' = r.stats
               /\ bpc' = "built"
               /\ UNCHANGED skips
    /\ ticks' = ticks + 1
    /\ now' = now + 1
    /\ UNCHANGED <<todo, cur, wlog, tickStart, closed>>
    /\ UNCHANGED hwsVars
    /\ UNCHANGED <<pullVars, monVars, termVars, pageVars>>

\* ws.mu.RLock(); the range loop starts over the map as it is now.
BcRLock ==
    /\ bpc = "built"
    /\ CanRLock(mu)
    /\ mu' = [mu EXCEPT !.r = @ \cup {BC}]
    /\ todo' = clients
    /\ tickStart' = [reg |-> clients, severed |-> {c \in clients : WriteFails(c)}]
    /\ bpc' = "range"
    /\ UNCHANGED <<stats, cur, ticks, skips, wlog, closed, now>>
    /\ UNCHANGED <<hpc, dpc, clients, peer>>
    /\ UNCHANGED <<pullVars, monVars, termVars, pageVars>>

\* Mutant: a delivered entry stays among the entries still to be produced.
BcWriteTwice(c) ==
    /\ bpc = "range"
    /\ c \in todo \cap clients
    /\ ~WriteBlocks(c)
    /\ wlog' = [wlog EXCEPT ![c] =
                  Append(@, [ts |-> stats.Timestamp, ok |-> ~WriteFails(c)])]
    /\ IF WriteFails(c)
       THEN bpc' = "failed" /\ cur' = c /\ todo' = todo \ {c}
       ELSE UNCHANGED <<bpc, cur, todo>>
    /\ UNCHANGED <<stats, ticks, skips, tickStart, closed, now>>
    /\ UNCHANGED hwsVars
    /\ UNCHANGED <<pullVars, monVars, termVars, pageVars>>

\* Mutant: a failed write ends the loop.
BcWriteBreak(c) ==
    /\ bpc = "range"
    /\ c \in todo \cap clients
    /\ ~WriteBlocks(c)
    /\ wlog' = [wlog EXCEPT ![c] =
                  Append(@, [ts |-> stats.Timestamp, ok |-> ~WriteFails(c)])]
    /\ IF WriteFails(c)
       THEN bpc' = "failed" /\ cur' = c /\ todo' = {}
       ELSE todo' = todo \ {c} /\ UNCHANGED <<bpc, cur>>
    /\ UNCHANGED <<stats, ticks, skips, tickStart, closed, now>>
    /\ UNCHANGED hwsVars
    /\ UNCHANGED <<pullVars, monVars, termVars, pageVars>>

\* The loop produces an entry, in any order, that is still in the map:
\* err := client.WriteJSON(stats)
BcWrite(c) ==
    /\ bpc = "range"
    /\ c \in todo \cap clients
    /\ ~WriteBlocks(c)
    /\ wlog' = [wlog EXCEPT ![c] =
                  Append(@, [ts |-> stats.Timestamp, ok |-> ~WriteFails(c)])]
    /\ todo' = todo \ {c}
    /\ IF WriteFails(c)
       THEN bpc' = "failed" /\ cur' = c
       ELSE UNCHANGED <<bpc, cur>>
    /\ UNCHANGED <<stats, ticks, skips, tickStart, closed, now>>
    /\ UNCHANGED hwsVars
    /\ UNCHANGED <<pullVars, monVars, termVars, pageVars>>

\* Mutant: the failed client is closed but stays in the map.
BcTeardownNoDelete ==
    /\ bpc = "failed"
    /\ closed' = [closed EXCEPT ![cur] = TRUE]
    /\ bpc' = "range"
    /\ cur' = 0
    /\ UNCHANGED <<stats, todo, ticks, skips, wlog, tickStart, now>>
    /\ UNCHANGED hwsVars
    /\ UNCHANGED <<pullVars, monVars, termVars, pageVars>>

\* err != nil: log; client.Close(); delete(ws.clients, client); next entry
BcTeardown ==
    /\ bpc = "failed"
    /\ closed' = [closed EXCEPT ![cur] = TRUE]
    /\ clients' = MapDelete(clients, cur)
    /\ bpc' = "range"
    /\ cur' = 0
    /\ UNCHANGED <<stats, todo, ticks, skips, wlog, tickStart, now>>
    /\ UNCHANGED <<hpc, dpc, mu, peer>>
    /\ UNCHANGED <<pullVars, monVars, termVars, pageVars>>

\* The loop is over: ws.mu.RUnlock(), and wait for the next tick.
BcRUnlock ==
    /\ bpc = "range"
    /\ todo \cap clients = {}
    /\ mu' = [mu EXCEPT !.r = @ \ {BC}]
    /\ bpc' = "idle"
    /\ stats' = NoStats
    /\ todo' = {}
    /\ tickStart' = NoTick
    /\ UNCHANGED <<cur, ticks, skips, wlog, closed, now>>
    /\ UNCHANGED <<hpc, dpc, clients, peer>>
    /\ UNCHANGED <<pullVars, monVars, termVars, pageVars>>

\* Mutant: the pull endpoint also pushes its snapshot to the subscribers.
HandleStatsPushing ==
    /\ now < MaxBuilds
    /\ \E os \in OSStates :
          LET r == BuildAt(now + 1, os) IN
          /\ resp' = IF r.err
                     THEN [status |-> 500, ts |-> 0, req |-> reqs + 1]
                     ELSE [status |-> 200, ts |-> r.stats.Timestamp, req |-> reqs + 1]
          /\ wlog' = [c \in Conns |->
                        IF c \in clients /\ ~r.err /\ ~WriteBlocks(c)
                        THEN Append(wlog[c], [ts |-> r.stats.Timestamp,
                                              ok |-> ~WriteFails(c)])
                        ELSE wlog[c]]
    /\ reqs' = reqs + 1
    /\ now' = now + 1
    /\ UNCHANGED <<closed, monVars, termVars, pageVars>>
    /\ UNCHANGED hwsVars
    /\ UNCHANGED <<bpc, stats, todo, cur, ticks, skips, tickStart>>

\* Mutant: the pull endpoint stores its snapshot where the broadcaster keeps
\* the one of the running tick.
HandleStatsSharing ==
    /\ now < MaxBuilds
    /\ \E os \in OSStates :
          LET r == BuildAt(now + 1, os) IN
          /\ resp' = IF r.err
                     THEN [status |-> 500, ts |-> 0, req |-> reqs + 1]
                     ELSE [status |-> 200, ts |-> r.stats.Timestamp, req |-> reqs + 1]
          /\ stats' = IF bpc = "idle" THEN stats ELSE r.stats
    /\ reqs' = reqs + 1
    /\ now' = now + 1
    /\ UNCHANGED <<closed, monVars, termVars, pageVars>>
    /\ UNCHANGED hwsVars
    /\ UNCHANGED <<bpc, todo, cur, ticks, skips, wlog, tickStart>>

\* Mutant: the pull endpoint reads under the registry's shared lock.
HandleStatsLocked ==
    /\ now < MaxBuilds
    /\ CanRLock(mu)
    /\ \E os \in OSStates :
          LET r == BuildAt(now + 1, os) IN
          resp' = IF r.err
                  THEN [status |-> 500, ts |-> 0, req |-> reqs + 1]
                  ELSE [status |-> 200, ts |-> r.stats.Timestamp, req |-> reqs + 1]
    /\ reqs' = reqs + 1
    /\ now' = now + 1
    /\ UNCHANGED <<closed, monVars, termVars, pageVars>>
    /\ UNCHANGED hwsVars
    /\ UNCHANGED bcVars

\* ---- handleStats: one /api/stats request
HandleStats ==
    /\ now < MaxBuilds
    /\ \E os \in OSStates :
          LET r == BuildAt(now + 1, os) IN
          resp' = IF r.err
                  THEN [status |-> 500, ts |-> 0, req |-> reqs + 1]
                  ELSE [status |-> 200, ts |-> r.stats.Timestamp, req |-> reqs + 1]
    /\ reqs' = reqs + 1
    /\ now' = now + 1
    /\ UNCHANGED <<closed, monVars, termVars, pageVars>>
    /\ UNCHANGED hwsVars
    /\ UNCHANGED bcVars

\* ---- the remote peers
\* The client goes away (closes the stream, or the network drops it).
PeerGone(c) ==
    /\ peer[c] \in {"alive", "slow", "halfclosed"}
    /\ peer' = [peer EXCEPT ![c] = "gone"]
    /\ UNCHANGED <<hpc, dpc, clients, mu, closed, now>>
    /\ UNCHANGED bcVars
    /\ UNCHANGED <<pullVars, monVars, termVars, pageVars>>

\* The client stops draining its stream.
PeerSlow(c) ==
    /\ peer[c] = "alive"
    /\ peer' = [peer EXCEPT ![c] = "slow"]
    /\ UNCHANGED <<hpc, dpc, clients, mu, closed, now>>
    /\ UNCHANGED bcVars
    /\ UNCHANGED <<pullVars, monVars, termVars, pageVars>>

\* The client, not draining its stream, closes its side of it.
PeerHalfClose(c) ==
    /\ peer[c] = "slow"
    /\ peer' = [peer EXCEPT ![c] = "halfclosed"]
    /\ UNCHANGED <<hpc, dpc, clients, mu, closed, now>>
    /\ UNCHANGED bcVars
    /\ UNCHANGED <<pullVars, monVars, termVars, pageVars>>

\* The client drains its stream again.
PeerResume(c) ==
    /\ peer[c] = "slow"
    /\ peer' = [peer EXCEPT ![c] = "alive"]
    /\ UNCHANGED <<hpc, dpc, clients, mu, closed, now>>
    /\ UNCHANGED bcVars
    /\ UNCHANGED <<pullVars, monVars, termVars, pageVars>>

Next ==
    \/ \E c \in Conns : HwsUpgrade(c)
    \/ \E c \in Conns : HwsUpgradeFail(c)
    \/ \E c \in Conns : HwsLock(c)
    \/ \E c \in Conns : HwsInsert(c)
    \/ \E c \in Conns : DhClose(c)
    \/ \E c \in Conns : DhLock(c)
    \/ \E c \in Conns : DhDelete(c)
    \/ BcTick
    \/ BcRLock
    \/ \E c \in Conns : BcWrite(c)
    \/ BcTeardown
    \/ BcRUnlock
    \/ HandleStats
    \/ \E c \in Conns : PeerGone(c)
    \/ \E c \in Conns : PeerSlow(c)
    \/ \E c \in Conns : PeerResume(c)

Spec == Init /\ [][Next]_vars

\* The goroutines of the server run on: a step of a handler, of a disconnect
\* goroutine or of the broadcaster that stays possible is taken; a Lock()
\* that is possible again and again is granted (a pending writer holds back
\* new readers), and a write that is possible again and again completes.
\* Nothing is assumed of the clients, of the ticker or of the requests.
Fairness ==
    /\ \A c \in Conns : SF_vars(HwsLock(c))
    /\ \A c \in Conns : WF_vars(HwsInsert(c))
    /\ \A c \in Conns : WF_vars(DhClose(c))
    /\ \A c \in Conns : SF_vars(DhLock(c))
    /\ \A c \in Conns : WF_vars(DhDelete(c))
    /\ WF_vars(BcRLock)
    /\ \A c \in Conns : SF_vars(BcWrite(c))
    /\ WF_vars(BcTeardown)
    /\ WF_vars(BcRUnlock)

FairSpec == Spec /\ Fairness

\* The server with clients that may also close their side of the stream
\* while they are not draining it: reads of the connection fail and writes
\* to it do not return.
HalfCloseNext ==
    \/ Next
    \/ \E c \in Conns : PeerHalfClose(c)

HalfCloseSpec == Init /\ [][HalfCloseNext]_vars
FairHalfCloseSpec == HalfCloseSpec /\ Fairness

\* ------------------------------------------- the monitor's readers, alone
\* A reader is run once against the OS state sys; call records which reader,
\* and what it returned.
Returned(fn, res) == [fn |-> fn, res |-> res]

CallGetSystemStats ==
    /\ call = NoCall
    /\ call' = Returned("GetSystemStats", GetSystemStats(1, sys))
    /\ UNCHANGED <<sys, serverVars, termVars, pageVars>>

CallGetCPUStats ==
    /\ call = NoCall
    /\ call' = Returned("getCPUStats", getCPUStats(sys))
    /\ UNCHANGED <<sys, serverVars, termVars, pageVars>>

CallGetMemoryStats ==
    /\ call = NoCall
    /\ call' = Returned("getMemoryStats", getMemoryStats(sys))
    /\ UNCHANGED <<sys, serverVars, termVars, pageVars>>

CallGetDiskStats ==
    /\ call = NoCall
    /\ call' = Returned("getDiskStats", getDiskStats(sys))
    /\ UNCHANGED <<sys, serverVars, termVars, pageVars>>

CallGetTemperatureStats ==
    /\ call = NoCall
    /\ call' = Returned("getTemperatureStats", getTemperatureStats(sys))
    /\ UNCHANGED <<sys, serverVars, termVars, pageVars>>

CallGetGPIOStats ==
    /\ call = NoCall
    /\ call' = Returned("getGPIOStats", getGPIOStats(sys))
    /\ UNCHANGED <<sys, serverVars, termVars, pageVars>>

CallReadLoadAverage ==
    /\ call = NoCall
    /\ call' = Returned("readLoadAverage", readLoadAverage(sys))
    /\ UNCHANGED <<sys, serverVars, termVars, pageVars>>

CallReadCPUFrequency ==
    /\ call = NoCall
    /\ call' = Returned("readCPUFrequency", readCPUFrequency(sys))
    /\ UNCHANGED <<sys, serverVars, termVars, pageVars>>

CallReadDiskIO ==
    /\ call = NoCall
    /\ call' = Returned("readDiskIO", readDiskIO(sys))
    /\ UNCHANGED <<sys, serverVars, termVars, pageVars>>

BuildInit ==
    /\ ServerInit
    /\ sys \in AllOS
    /\ MonitorIdle
    /\ TerminalOff
    /\ PageOff

BuildNext ==
    \/ CallGetSystemStats
    \/ CallGetCPUStats
    \/ CallGetMemoryStats
    \/ CallGetDiskStats
    \/ CallGetTemperatureStats
    \/ CallGetGPIOStats
    \/ CallReadLoadAverage
    \/ CallReadCPUFrequency
    \/ CallReadDiskIO

BuildSpec == BuildInit /\ [][BuildNext]_vars

\* ------------------------------------------------------- terminal/ui.go
EventKinds == {"Escape", "CtrlC", "Rune", "Resize"}
QuitKeys == {"Escape", "CtrlC"}

\* Start: NewScreen and Init succeed; defer screen.Fini(); go handleEvents();
\* NewTicker; defer ticker.Stop(); enter the loop.
StartScreen ==
    /\ tpc = "new"
    /\ tpc' = "select"
    /\ epc' = "poll"
    /\ UNCHANGED <<quit, events, typed, tick, fini>>
    /\ UNCHANGED <<serverVars, monVars, pageVars>>

\* Start: NewScreen or Init fails; return the error.
StartScreenFail ==
    /\ tpc = "new"
    /\ tpc' = "failed"
    /\ UNCHANGED <<epc, quit, events, typed, tick, fini>>
    /\ UNCHANGED <<serverVars, monVars, pageVars>>

\* The ticker of Start puts a tick in its channel, which holds one.
TickerFires ==
    /\ tpc \in {"select", "render"}
    /\ ~tick
    /\ tick' = TRUE
    /\ UNCHANGED <<tpc, epc, quit, events, typed, fini>>
    /\ UNCHANGED <<serverVars, monVars, pageVars>>

\* select: case <-ticker.C
SelectTick ==
    /\ tpc = "select"
    /\ tick
    /\ tick' = FALSE
    /\ tpc' = "render"
    /\ UNCHANGED <<epc, quit, events, typed, fini>>
    /\ UNCHANGED <<serverVars, monVars, pageVars>>

\* tui.render() returns.
Render ==
    /\ tpc = "render"
    /\ tpc' = "select"
    /\ UNCHANGED <<epc, quit, events, typed, tick, fini>>
    /\ UNCHANGED <<serverVars, monVars, pageVars>>

\* Mutant: a select that takes the quit case only when no tick is waiting.
SelectQuitAfterTicks ==
    /\ tpc = "select"
    /\ quit
    /\ ~tick
    /\ tpc' = "returned"
    /\ fini' = TRUE
    /\ UNCHANGED <<epc, quit, events, typed, tick>>
    /\ UNCHANGED <<serverVars, monVars, pageVars>>

\* select: case <-tui.quit: return nil; the deferred ticker.Stop() and
\* screen.Fini() run.
SelectQuit ==
    /\ tpc = "select"
    /\ quit
    /\ tpc' = "returned"
    /\ fini' = TRUE
    /\ UNCHANGED <<epc, quit, events, typed, tick>>
    /\ UNCHANGED <<serverVars, monVars, pageVars>>

\* The user presses a key or resizes the terminal.
UserEvent(k) ==
    /\ tpc \in {"select", "render"}
    /\ typed < MaxEvents
    /\ events' = Append(events, k)
    /\ typed' = typed + 1
    /\ UNCHANGED <<tpc, epc, quit, tick, fini>>
    /\ UNCHANGED <<serverVars, monVars, pageVars>>

\* Mutant: the goroutine closes tui.quit and goes on polling.
HandleEventLooping ==
    /\ epc = "poll"
    /\ events # <<>>
    /\ events' = Tail(events)
    /\ IF Head(events) \in QuitKeys
       THEN quit' = TRUE
       ELSE UNCHANGED quit
    /\ UNCHANGED <<tpc, epc, typed, tick, fini>>
    /\ UNCHANGED <<serverVars, monVars, pageVars>>

\* handleEvents: PollEvent returns the next event; Escape and Ctrl+C close
\* tui.quit and end the goroutine, a resize syncs the screen.
HandleEvent ==
    /\ epc = "poll"
    /\ events # <<>>
    /\ events' = Tail(events)
    /\ IF Head(events) \in QuitKeys
       THEN quit' = TRUE /\ epc' = "done"
       ELSE UNCHANGED <<quit, epc>>
    /\ UNCHANGED <<tpc, typed, tick, fini>>
    /\ UNCHANGED <<serverVars, monVars, pageVars>>

\* ------------------------------------ the page the web server serves
\* connect(): ws = new WebSocket(wsUrl), with its four handlers.
Connect ==
    /\ ws' = "connecting"
    /\ attempts' = attempts + 1

\* The script runs connect() when the page is loaded.
PageLoad ==
    /\ ws = "none"
    /\ Connect
    /\ UNCHANGED <<reconnectTimer, timers>>
    /\ UNCHANGED <<serverVars, monVars, termVars>>

\* ws.onopen
WsOnOpen ==
    /\ ws = "connecting"
    /\ ws' = "open"
    /\ IF reconnectTimer # 0
       THEN timers' = timers \ {reconnectTimer} /\ reconnectTimer' = 0
       ELSE UNCHANGED <<reconnectTimer, timers>>
    /\ UNCHANGED attempts
    /\ UNCHANGED <<serverVars, monVars, termVars>>

\* ws.onclose, of an open socket or of one that failed to open; setTimeout
\* returns a handle not used before.
WsOnClose ==
    /\ ws \in {"connecting", "open"}
    /\ ws' = "closed"
    /\ IF reconnectTimer = 0
       THEN reconnectTimer' = attempts /\ timers' = timers \cup {attempts}
       ELSE UNCHANGED <<reconnectTimer, timers>>
    /\ UNCHANGED attempts
    /\ UNCHANGED <<serverVars, monVars, termVars>>

\* The timeout h expires: connect().
TimerFires(h) ==
    /\ h \in timers
    /\ attempts < MaxAttempts
    /\ timers' = timers \ {h}
    /\ Connect
    /\ UNCHANGED reconnectTimer
    /\ UNCHANGED <<serverVars, monVars, termVars>>

\* emmon terminal, and a browser on the page.
UIInit ==
    /\ ServerInit
    /\ sys = HealthyOS
    /\ MonitorIdle
    /\ tpc = "new"
    /\ epc = "none"
    /\ quit = FALSE
    /\ events = <<>>
    /\ typed = 0
    /\ tick = FALSE
    /\ fini = FALSE
    /\ PageOff

UINext ==
    \/ StartScreen
    \/ StartScreenFail
    \/ TickerFires
    \/ SelectTick
    \/ Render
    \/ SelectQuit
    \/ \E k \in EventKinds : UserEvent(k)
    \/ HandleEvent
    \/ PageLoad
    \/ WsOnOpen
    \/ WsOnClose
    \/ \E h \in 1..MaxAttempts : TimerFires(h)

UISpec == UIInit /\ [][UINext]_vars

\* Both goroutines of the terminal adapter run on, and a select with several
\* ready cases takes each of them sooner or later (the runtime picks one at
\* random). Nothing is assumed of the ticker, of the user or of the page.
UIFairness ==
    /\ WF_vars(HandleEvent)
    /\ WF_vars(Render)
    /\ SF_vars(SelectQuit)

FairUISpec == UISpec /\ UIFairness

\* ================================================================ claims
\* The connections whose insert has run, and those a delete has run for.
Inserted == {c \in Conns : hpc[c] = "done"}
WriteFailed(c) == wlog[c] # <<>> /\ ~wlog[c][Len(wlog[c])].ok
RemovedByBroadcast == {c \in Conns : WriteFailed(c) /\ ~(bpc = "failed" /\ cur = c)}
RemovedByHandler == {c \in Conns : dpc[c] = "done"}
Removed == RemovedByBroadcast \cup RemovedByHandler

\* What the current tick has done to c.
WrittenInTick(c) == {i \in DOMAIN wlog[c] : wlog[c][i].ts = stats.Timestamp}
DeliveredInTick(c) == \E i \in WrittenInTick(c) : wlog[c][i].ok
FailedInTick(c) == \E i \in WrittenInTick(c) : ~wlog[c][i].ok

\* The range loop of the current tick is over (RUnlock is next).
TickEnd == bpc = "range" /\ todo \cap clients = {}

\* C1: every change of the key set of ws.clients is made by a step taken
\* while the exclusive lock ws.mu is held and no shared lock is.
C1_MutationUnderWriteLock ==
    [][clients' # clients => (mu.w # None /\ mu.r = {})]_vars

\* C2: when the loop of a tick is over, every subscriber whose write failed
\* in that tick has been closed and is no longer in the registry; the same
\* holds of every failed subscriber between ticks.
C2_FailedWriteTornDown ==
    /\ TickEnd => \A c \in Conns : FailedInTick(c) => c \notin clients /\ closed[c]
    /\ bpc \in {"idle", "built"} =>
          \A c \in Conns : WriteFailed(c) => c \notin clients /\ closed[c]

C2_Witness ==
    /\ TickEnd
    /\ \E c \in Conns : FailedInTick(c)
    /\ \E c \in Conns : DeliveredInTick(c)

\* C3 as stated: at the end of a tick, the subscribers that were registered
\* and not severed when the tick took the lock have all been delivered the
\* snapshot, the severed ones have received nothing and are removed, and the
\* registry has N - k entries.
C3_LiveAtStartAllReceive ==
    TickEnd =>
        /\ \A c \in tickStart.reg \ tickStart.severed : DeliveredInTick(c)
        /\ \A c \in tickStart.severed : ~DeliveredInTick(c) /\ c \notin clients
        /\ Cardinality(clients) =
              Cardinality(tickStart.reg) - Cardinality(tickStart.severed)

\* C3 as amended: at the end of a tick every subscriber registered at its
\* start has been written to exactly once; those severed at the start, and
\* those severed before their write, received nothing and are removed; all
\* others received the snapshot and stay; the registry has N minus the number
\* of failed writes entries.
C3_FanOutIsolation ==
    TickEnd =>
        /\ \A c \in tickStart.reg : Cardinality(WrittenInTick(c)) = 1
        /\ \A c \in tickStart.severed : FailedInTick(c)
        /\ \A c \in tickStart.reg : FailedInTick(c) => c \notin clients
        /\ \A c \in tickStart.reg : DeliveredInTick(c) => c \in clients
        /\ Cardinality(clients) =
              Cardinality(tickStart.reg)
                 - Cardinality({c \in tickStart.reg : FailedInTick(c)})

C3_Witness ==
    /\ TickEnd
    /\ Cardinality(tickStart.reg) = MaxConns
    /\ Cardinality(tickStart.severed) = 1
    /\ \E c \in tickStart.reg : DeliveredInTick(c)

\* C4: while a tick is delivering, the broadcaster always has a step to
\* take: no subscriber's write keeps it from going on.
C4_TickNeverBlocked ==
    bpc \in {"range", "failed"} =>
        ENABLED ((\E c \in Conns : BcWrite(c)) \/ BcTeardown \/ BcRUnlock)

\* C5: the capture timestamps of the writes made on a subscriber are strictly
\* increasing: at most one write per tick, and never an older snapshot after
\* a newer one.
C5_PerSubscriberOrder ==
    \A c \in Conns : \A i, j \in DOMAIN wlog[c] :
        i < j => wlog[c][i].ts < wlog[c][j].ts

C5_Witness ==
    \E c \in Conns : Len(wlog[c]) = 2 /\ wlog[c][1].ok /\ wlog[c][2].ok

\* C6: every WriteJSON call is made on a connection on which Close has not
\* been called.
C6_NoWriteAfterClose ==
    [][\A c \in Conns : Len(wlog'[c]) > Len(wlog[c]) => ~closed[c]]_vars

\* C7: the disconnect handler's delete leaves the registry as it is, but for
\* its own connection: a connection the broadcaster has already removed is
\* removed again without any effect.
C7_DeregisterIdempotent ==
    [][\A c \in Conns :
          (dpc[c] = "locked" /\ dpc'[c] = "done") =>
              /\ clients' = clients \ {c}
              /\ (c \notin clients => clients' = clients)]_vars

C7_Witness ==
    \E c \in Conns :
        /\ c \in RemovedByBroadcast
        /\ dpc[c] = "done"
        /\ clients # {}

\* C8: no two threads of control are inside their accesses of ws.clients at
\* once, and the registry holds exactly the connections inserted and not
\* removed since, so that its size is the inserts minus the removals.
MapAccessors ==
    {P("hws", c) : c \in {d \in Conns : hpc[d] = "locked"}}
    \cup {P("dh", c) : c \in {d \in Conns : dpc[d] = "locked"}}
    \cup (IF bpc \in {"range", "failed"} THEN {BC} ELSE {})

C8_RegistryConsistent ==
    /\ Cardinality(MapAccessors) <= 1
    /\ clients = Inserted \ Removed
    /\ Removed \subseteq Inserted
    /\ Cardinality(clients) = Cardinality(Inserted) - Cardinality(Removed)

C8_Witness ==
    /\ RemovedByBroadcast # {}
    /\ RemovedByHandler \ RemovedByBroadcast # {}
    /\ \A c \in Conns : hpc[c] \in {"done", "failed"} /\ dpc[c] \in {"none", "done"}
    /\ bpc = "idle"

\* C9: a pull request can be served in every state, whoever holds the
\* registry lock; serving it leaves the lock, the registry and the
\* broadcaster untouched, and answers with a snapshot built for it: its
\* timestamp is a new clock reading, not that of the tick's snapshot nor of
\* any snapshot sent to a subscriber.
C9_PullIndependent ==
    [][/\ now < MaxBuilds => ENABLED HandleStats
       /\ reqs' # reqs =>
             /\ mu' = mu /\ clients' = clients /\ stats' = stats /\ wlog' = wlog
             /\ resp'.ts = now + 1
             /\ resp'.ts # stats.Timestamp
             /\ \A c \in Conns : \A i \in DOMAIN wlog[c] : wlog[c][i].ts # resp'.ts]_vars

C9_Witness ==
    /\ reqs = 1
    /\ resp.status = 200
    /\ mu.r = {BC}
    /\ stats.Timestamp < resp.ts

\* C10: the build returns a snapshot and no error for every OS state the
\* server's builds run against; no pull request is answered 500 and no tick
\* is abandoned.
BuildNeverFails ==
    \A o \in OSStates : LET r == GetSystemStats(1, o) IN ~r.err /\ ~r.nil

C10_BuildNeverFails ==
    /\ BuildNeverFails
    /\ skips = 0
    /\ resp.status # 500

C10_Witness ==
    /\ bpc = "range"
    /\ stats.Memory = ZeroMem
    /\ stats.Disk = ZeroDisk
    /\ resp.status = 200

\* ---- the snapshot build and the readers (BuildSpec)
Built == call.fn = "GetSystemStats"

\* What a family of the snapshot has to be, given what its reader returned.
Isolated(field, r, zero) == field = (IF r.err THEN zero ELSE r.val)

\* C11: every build invokes all five family readers; a family whose reader
\* returned an error is at its zero value in the snapshot and every other
\* family is exactly what its own reader returned.
C11_FamilyIsolation ==
    Built =>
        /\ ~call.res.nil
        /\ call.res.calls = <<"cpu", "memory", "disk", "temperature", "gpio">>
        /\ Isolated(call.res.stats.CPU, getCPUStats(sys), ZeroCPU)
        /\ Isolated(call.res.stats.Memory, getMemoryStats(sys), ZeroMem)
        /\ Isolated(call.res.stats.Disk, getDiskStats(sys), ZeroDisk)
        /\ Isolated(call.res.stats.Temperature, getTemperatureStats(sys), ZeroTemp)
        /\ Isolated(call.res.stats.GPIO, getGPIOStats(sys), ZeroGPIO)

\* Memory failed and is zero; disk, read after it, is populated.
C11_Witness ==
    /\ Built
    /\ getMemoryStats(sys).err
    /\ call.res.stats.Memory = ZeroMem
    /\ ~getDiskStats(sys).err
    /\ call.res.stats.Disk.Total = 16
    /\ call.res.stats.CPU.UsagePercent = 37

\* ---- disconnects (FairSpec)
\* The disconnect goroutine of c is reading and the client of c has gone.
Dropped(c) == dpc[c] = "reading" /\ peer[c] \in {"gone", "halfclosed"}

\* C12: after the client of a subscriber has closed the stream, the server
\* eventually closes the connection and removes it from the registry.
C12_DisconnectHandled ==
    \A c \in Conns : Dropped(c) ~> (closed[c] /\ c \notin clients)

\* ---- the creation of subscribers
\* C13: a failed upgrade leaves the registry and the disconnect goroutines as
\* they are, and its connection never gets either; a disconnect goroutine
\* is started by the step that inserts its connection and by no other, so a
\* connection is registered before its goroutine can remove it and no
\* connection gets a second goroutine.
C13_CreatedByUpgradeOnly ==
    [][\A c \in Conns :
          /\ (hpc[c] # "failed" /\ hpc'[c] = "failed") =>
                clients' = clients /\ dpc' = dpc /\ mu' = mu
          /\ hpc'[c] = "failed" => dpc'[c] = "none" /\ c \notin clients'
          /\ (c \notin clients /\ c \in clients') =>
                hpc[c] = "locked" /\ dpc[c] = "none" /\ dpc'[c] = "reading"
          /\ (dpc[c] # "reading" /\ dpc'[c] = "reading") =>
                c \notin clients /\ c \in clients'
          /\ (dpc[c] = "locked" /\ dpc'[c] = "done") => hpc[c] = "done"
          /\ dpc[c] # "none" => dpc'[c] # "none" /\ hpc'[c] = "done"
    ]_vars

\* One upgrade has failed and one has succeeded, and the goroutine of the
\* second has removed it.
C13_Witness ==
    /\ hpc[1] = "failed" /\ dpc[1] = "none"
    /\ hpc[2] = "done" /\ dpc[2] = "done"
    /\ 2 \notin clients

\* ---- the terminal adapter (FairUISpec)
\* An Escape or Ctrl+C has been received, or waits to be polled.
QuitRequested == quit \/ \E i \in DOMAIN events : events[i] \in QuitKeys

\* C14: once an Escape or Ctrl+C key event is received, Start eventually
\* returns nil and screen.Fini() has run.
C14_QuitTerminates == QuitRequested ~> (tpc = "returned" /\ fini)

\* Start has returned although a tick was waiting in the ticker's channel.
C14_Witness == tpc = "returned" /\ fini /\ quit /\ tick

\* ---- the page (UISpec)
\* C15: after every close of the stream another connection attempt is on its
\* way, that is, a reconnect timeout is pending (nothing else calls
\* connect()), and at most one timeout is pending at any time.
C15_ReconnectPending ==
    /\ ws = "closed" => timers # {}
    /\ Cardinality(timers) <= 1

\* ---- the GPIO reader (BuildSpec)
\* The pin mapping the last call produced, whether the call was of the GPIO
\* reader or of the whole build.
GpioRan == call.fn \in {"getGPIOStats", "GetSystemStats"}
PinsReturned ==
    IF Built THEN call.res.stats.GPIO.Pins ELSE call.res.val.Pins

\* The entries of the GPIO root that are pins with a direction and an
\* integer value.
ReadablePins ==
    {i \in DOMAIN sys.gpio.entries :
        LET e == sys.gpio.entries[i] IN
        /\ HasPrefix(e.name, "gpio")
        /\ e.direction.exists
        /\ e.value.exists
        /\ ~Atoi(TrimSpace(e.value.text)).err}

\* The pins the fixture of sys.gpio is to yield.
PinsWanted == (CHOOSE f \in GpioFixtures : f.gpio = sys.gpio).want

\* C16: the GPIO reader returns no error and a mapping that is not nil; it
\* is empty when the GPIO root is absent, and otherwise holds exactly the
\* entries named gpio* whose direction and value were read and whose value
\* is an integer, each under its name with Pin equal to the key.
C16_GpioNeverFails ==
    GpioRan =>
        /\ ~call.res.err
        /\ ~PinsReturned.nil
        /\ sys.gpio.stat = "notexist" => DOMAIN PinsReturned.m = {}
        /\ DOMAIN PinsReturned.m = {sys.gpio.entries[i].name : i \in ReadablePins}
        /\ \A k \in DOMAIN PinsReturned.m : PinsReturned.m[k].Pin = k
        /\ {PinsReturned.m[k] : k \in DOMAIN PinsReturned.m} = PinsWanted

\* A pin whose value does not parse is skipped, the pin after it is kept.
C16_Witness ==
    /\ call.fn = "getGPIOStats"
    /\ Len(sys.gpio.entries) = 2
    /\ sys.gpio.entries[1].value = TextFile("high\n")
    /\ DOMAIN call.res.val.Pins.m = {"gpio4"}
    /\ call.res.val.Pins.m["gpio4"].Mode = "out"

\* ---- the temperature reader (BuildSpec)
TempRan == call.fn \in {"getTemperatureStats", "GetSystemStats"}
TempReturned == IF Built THEN call.res.stats.Temperature ELSE call.res.val

\* What the file of a sensor states.
Stated(sensor) == CHOOSE f \in ThermalFixtures : f.file = sys.thermal[sensor]

\* A reported value v (thousandths of a degree) is the reading of the sensor
\* (millidegrees) divided by 1000 when its file states one, and 0 otherwise.
ReportsSensor(v, sensor) ==
    IF Stated(sensor).valid THEN v * 1000 = Stated(sensor).reading * Milli ELSE v = 0

\* C17: each of the four sensors is reported as its millidegree reading
\* divided by 1000 when its file is readable and parses, and as 0 otherwise,
\* whatever the other three files are and in whatever order the four are
\* visited; the reader returns no error.
C17_SensorsIndependent ==
    TempRan =>
        /\ ~call.res.err
        /\ ReportsSensor(TempReturned.CPU, "cpu")
        /\ ReportsSensor(TempReturned.GPU, "gpu")
        /\ ReportsSensor(TempReturned.Board, "board")
        /\ ReportsSensor(TempReturned.Ambient, "ambient")

\* The first sensor visited has no file, one visited after it is reported.
C17_Witness ==
    /\ call.fn = "getTemperatureStats"
    /\ sys.order[1] = "board"
    /\ sys.order[4] = "cpu"
    /\ sys.thermal["board"] = NoFile
    /\ sys.thermal["gpu"] = TextFile("abc\n")
    /\ call.res.val = [CPU |-> 45000, GPU |-> 0, Board |-> 0, Ambient |-> 45000]

\* ---- the disk I/O counters (BuildSpec)
\* The counters the last call produced: of readDiskIO itself, or of a disk
\* family whose usage query succeeded.
IORan ==
    \/ call.fn = "readDiskIO"
    \/ call.fn \in {"getDiskStats", "GetSystemStats"} /\ ~sys.disk.err
IOReturned ==
    CASE call.fn = "readDiskIO" -> call.res.val
      [] call.fn = "getDiskStats" ->
            [Read |-> call.res.val.IORead, Write |-> call.res.val.IOWrite]
      [] OTHER ->
            [Read |-> call.res.stats.Disk.IORead, Write |-> call.res.stats.Disk.IOWrite]
DiskReturned ==
    CASE call.fn = "getDiskStats" -> call.res.val
      [] OTHER -> call.res.stats.Disk

\* The disk family reports the figures of the usage query, and no error.
UsageReported ==
    call.fn \in {"getDiskStats", "GetSystemStats"} =>
        /\ ~call.res.err
        /\ DiskReturned.Total = sys.disk.Total
        /\ DiskReturned.Used = sys.disk.Used
        /\ DiskReturned.Free = sys.disk.Free
        /\ DiskReturned.UsagePercent = sys.disk.UsedPercent

\* The lines of diskstats whose device name is one of the two fixed names,
\* and those among them that have the fourteen fields of a device line.
NamedLines ==
    {i \in DOMAIN sys.diskstats.lines :
        LET f == Fields(sys.diskstats.lines[i]) IN Len(f) >= 3 /\ f[3] \in DiskNames}
FullLines ==
    {i \in NamedLines : Len(Fields(sys.diskstats.lines[i])) >= 14}
First(S) == CHOOSE i \in S : \A j \in S : i <= j

\* The counters at positions 4 and 8 of line i (0 for one that is no number).
CountersAt(i) ==
    LET f == Fields(sys.diskstats.lines[i]) IN
    [Read |-> IF Len(f) >= 4 THEN ParseUint(f[4]).val ELSE 0,
     Write |-> IF Len(f) >= 8 THEN ParseUint(f[8]).val ELSE 0]

CpuRan == call.fn \in {"getCPUStats", "GetSystemStats"}
CpuReturned == IF Built THEN call.res.stats.CPU ELSE call.res.val

\* What the load-average and the frequency source of sys state.
LoadStated == (CHOOSE f \in LoadavgFixtures : f.file = sys.loadavg).want
FrequencyStated == (CHOOSE f \in CpuinfoFixtures : f.file = sys.cpuinfo).want

\* The load-average source is readable and its first three fields are numbers.
LoadAvailable ==
    LET fields == Fields(sys.loadavg.text) IN
    /\ sys.loadavg.exists
    /\ Len(fields) >= 3
    /\ \A i \in 1..3 : ~ParseFloat(fields[i]).err

SampleAvailable == ~sys.percent.err /\ Len(sys.percent.usage) > 0

Percentage == 0..100

\* The figures gopsutil hands over are percentages.
CpuWellFormed == SampleAvailable => sys.percent.usage[1] \in Percentage
MemWellFormed == ~sys.vm.err => sys.vm.UsedPercent \in Percentage
DiskWellFormed == ~sys.disk.err => sys.disk.UsedPercent \in Percentage

\* C20: in every snapshot the usage percentage of cpu, of memory and of disk
\* is within 0..100 when the figure of its source is, and is 0 for a family
\* whose reader failed.
C20_PercentagesInRange ==
    Built =>
        /\ CpuWellFormed => call.res.stats.CPU.UsagePercent \in Percentage
        /\ MemWellFormed => call.res.stats.Memory.UsagePercent \in Percentage
        /\ DiskWellFormed => call.res.stats.Disk.UsagePercent \in Percentage
        /\ ~SampleAvailable => call.res.stats.CPU.UsagePercent = 0
        /\ sys.vm.err => call.res.stats.Memory.UsagePercent = 0
        /\ sys.disk.err => call.res.stats.Disk.UsagePercent = 0

\* A snapshot with memory full, the disk reader failed and no cpu sample.
C20_Witness ==
    /\ Built
    /\ call.res.stats.Memory.UsagePercent = 100
    /\ sys.disk.err
    /\ call.res.stats.Disk.UsagePercent = 0
    /\ ~SampleAvailable
    /\ call.res.stats.CPU.UsagePercent = 0

\* ---- used and total (BuildSpec)
\* In the record r, used does not exceed total when neither is zero.
UsedWithinTotal(r) == (r.Used # 0 /\ r.Total # 0) => r.Used <= r.Total

\* C21: in every snapshot memory and disk carry total, used, free (and
\* available) exactly as the one OS query returned them, so used <= total
\* holds in the snapshot whenever it holds in the source; a family whose
\* reader failed has total = used = 0.
C21_UsedWithinTotal ==
    Built =>
        LET m == call.res.stats.Memory
            d == call.res.stats.Disk
        IN  /\ ~sys.vm.err =>
                  /\ m.Total = sys.vm.Total /\ m.Used = sys.vm.Used
                  /\ m.Free = sys.vm.Free /\ m.Available = sys.vm.Available
            /\ ~sys.disk.err =>
                  /\ d.Total = sys.disk.Total /\ d.Used = sys.disk.Used
                  /\ d.Free = sys.disk.Free
            /\ sys.vm.err => m.Total = 0 /\ m.Used = 0
            /\ sys.disk.err => d.Total = 0 /\ d.Used = 0
            /\ UsedWithinTotal(sys.vm) => UsedWithinTotal(m)
            /\ UsedWithinTotal(sys.disk) => UsedWithinTotal(d)

\* A snapshot of a full disk, with memory partly used.
C21_Witness ==
    /\ Built
    /\ call.res.stats.Disk.Used = 16
    /\ call.res.stats.Disk.Total = 16
    /\ call.res.stats.Memory.Used = 3
    /\ call.res.stats.Memory.Total = 8

\* ---- the snapshot of a tick
\* C22: the broadcaster's snapshot is set once per tick, by the build that
\* consumes the tick and before the shared lock is taken, and stays as it is
\* until the tick is over; every write of the tick sends that snapshot; no
\* write ever carries the timestamp of a snapshot built for a pull request.
C22_OneSnapshotPerTick ==
    [][/\ stats' # stats =>
             \/ /\ bpc = "idle" /\ bpc' = "built"
                /\ ticks' = ticks + 1
                /\ now' = now + 1
                /\ stats'.Timestamp = now'
                /\ BC \notin mu.r
             \/ bpc = "range" /\ bpc' = "idle" /\ stats' = NoStats
       /\ ticks' # ticks =>
             ticks' = ticks + 1 /\ now' = now + 1 /\ (stats' # stats \/ skips' # skips)
       /\ (BC \notin mu.r /\ BC \in mu'.r) => stats # NoStats /\ stats' = stats
       /\ \A c \in Conns :
             wlog'[c] # wlog[c] =>
                /\ BC \in mu.r
                /\ stats' = stats
                /\ Len(wlog'[c]) = Len(wlog[c]) + 1
                /\ SubSeq(wlog'[c], 1, Len(wlog[c])) = wlog[c]
                /\ wlog'[c][Len(wlog'[c])].ts = stats.Timestamp
       /\ \A c \in Conns : \A i \in DOMAIN wlog'[c] :
             resp'.ts = 0 \/ wlog'[c][i].ts # resp'.ts
       /\ reqs' # reqs => wlog' = wlog /\ stats' = stats
    ]_vars

\* Two subscribers have been sent the snapshot of the same tick, and a pull
\* request was answered after that snapshot was built.
C22_Witness ==
    /\ bpc = "range"
    /\ wlog[1] # <<>> /\ wlog[2] # <<>>
    /\ wlog[1][Len(wlog[1])] = [ts |-> stats.Timestamp, ok |-> TRUE]
    /\ wlog[2][Len(wlog[2])] = [ts |-> stats.Timestamp, ok |-> TRUE]
    /\ resp.status = 200
    /\ resp.ts > stats.Timestamp

\* ---- the broadcaster and a disconnect goroutine (FairHalfCloseSpec)
\* The disconnect goroutine of c waits for the exclusive lock.
AwaitsLock(c) == dpc[c] = "closed"

\* C23: the broadcaster is never blocked writing to a connection whose
\* disconnect goroutine waits for the lock (the goroutine has closed the
\* connection first, which fails the write); and a goroutine that waits for
\* the lock obtains it and completes, provided the broadcaster is not held
\* up for ever by the client of another connection.
C23_NoMutualWait ==
    /\ [](\A c \in Conns : AwaitsLock(c) => ~WriteBlocks(c))
    /\ \A c \in Conns :
          ([](\A d \in Conns \ {c} : ~WriteBlocks(d) \/ d \notin clients))
             => (AwaitsLock(c) ~> dpc[c] = "done")

\* The goroutine of a connection has closed it and waits for the lock, which
\* the broadcaster holds with that connection as the next to write to: the
\* client neither reads nor has dropped the connection.
C23_Witness ==
    \E c \in Conns :
        /\ AwaitsLock(c)
        /\ BC \in mu.r
        /\ c \in todo \cap clients
        /\ peer[c] = "halfclosed"
        /\ closed[c]

\* ---- who writes to a subscriber's connection (Spec)
\* C24: a write to a connection is a step of the broadcaster's range loop,
\* made under the shared lock to one entry still to be produced; the steps of
\* handleWebSocket, of the disconnect goroutines and of the pull endpoint
\* write to no connection, and no step writes to two connections.
C24_SingleWriter ==
    [][\A c \in Conns : wlog'[c] # wlog[c] =>
          /\ bpc = "range" /\ BC \in mu.r
          /\ c \in todo /\ c \notin todo'
          /\ wlog'[c] = Append(wlog[c], [ts |-> stats.Timestamp, ok |-> ~WriteFails(c)])
          /\ \A d \in Conns \ {c} : wlog'[d] = wlog[d]
          /\ hpc' = hpc /\ dpc' = dpc /\ clients' = clients /\ mu' = mu
          /\ reqs' = reqs /\ resp' = resp
    ]_vars

\* Both connections have been written to, while a handler stood between
\* upgrade and registration or a disconnect goroutine was at work, and the
\* pull endpoint has answered a request.
C24_Witness ==
    /\ wlog[1] # <<>>
    /\ wlog[2] # <<>>
    /\ \E c \in Conns : dpc[c] \in {"closed", "locked", "done"}
    /\ reqs >= 1
    /\ resp.status = 200

\* ---- the quit channel of the terminal adapter (UISpec)
\* C25: tui.quit is closed at most once: the step that closes it finds it
\* open, handles an Escape or Ctrl+C and ends the event goroutine; once it
\* is closed the goroutine has returned and takes no further event, so no
\* later keypress reaches close(); and handling a resize or another key
\* leaves the channel as it is.
C25_QuitClosedOnce ==
    /\ [](quit => epc = "done")
    /\ [][/\ quit' # quit =>
                /\ ~quit /\ quit'
                /\ epc = "poll" /\ epc' = "done"
                /\ events # <<>> /\ Head(events) \in QuitKeys
                /\ events' = Tail(events)
          /\ quit => (quit' /\ \E k \in EventKinds \cup {"none"} :
                                  events' = IF k = "none" THEN events
                                            ELSE Append(events, k))
          /\ (events # <<>> /\ events' = Tail(events)
                /\ Head(events) \notin QuitKeys) => (quit' = quit /\ epc' = epc)
       ]_vars

\* The channel is closed, the goroutine has returned, and a second quit
\* keypress sits unhandled in the event queue.
C25_Witness ==
    /\ quit
    /\ epc = "done"
    /\ events # <<>>
    /\ Head(events) \in QuitKeys
    /\ typed = 2

\* ---- registration and the ticks that follow it (Spec)
\* The broadcaster is inside the range loop of a tick.
Delivering == bpc \in {"range", "failed"}

\* C26: the insert of a subscriber writes nothing to it, and nothing has been
\* written to a connection whose insert has not run; the loop of a tick
\* ranges over the registry as it is when the shared lock is taken, no
\* insert runs or holds the lock while the loop runs, nothing is written in
\* a tick to a connection that was not in the registry when its loop
\* started, and when the loop is over every connection that was in the
\* registry when it started has been written to in that tick.
C26_RegistrationSilent ==
    /\ [](\A c \in Conns : hpc[c] # "done" => wlog[c] = <<>>)
    /\ [](Delivering =>
            /\ clients \subseteq tickStart.reg
            /\ \A c \in Conns : hpc[c] # "locked"
            /\ \A c \in Conns \ tickStart.reg : WrittenInTick(c) = {})
    /\ [](TickEnd => \A c \in tickStart.reg : WrittenInTick(c) # {})
    /\ [][/\ (clients' \ clients # {}) =>
                /\ wlog' = wlog
                /\ ~Delivering /\ BC \notin mu.r
                /\ \E c \in Conns : clients' = clients \cup {c} /\ wlog[c] = <<>>
          /\ (bpc = "built" /\ bpc' = "range") =>
                tickStart'.reg = clients /\ todo' = clients
       ]_vars

\* The loop of the second tick is over: the first connection has been
\* written to in both ticks; the second, whose insert came after the loop of
\* the first tick had started, only in this one.
C26_Witness ==
    /\ TickEnd
    /\ ticks = 2
    /\ Len(wlog[1]) = 2
    /\ Len(wlog[2]) = 1
    /\ WrittenInTick(1) # {}
    /\ WrittenInTick(2) # {}
    /\ tickStart.reg = {1, 2}

====
